---- MODULE Spec2Model ----
(***************************************************************************)
(* samup: the single-pass markup-to-HTML transcriber.                      *)
(*                                                                         *)
(* The engine state is the cursor ix, the lookbehind class prev_c and the  *)
(* stack of open tags (src/src/transcriber.rs).  Every call of transcribe  *)
(* reads exactly one byte, input[ix]; the model draws that byte from a     *)
(* small alphabet and records the bytes read so far in inp.  The sink is   *)
(* out, a sequence of tokens: a literal byte is written as its own token,  *)
(* a fixed HTML fragment as one token per fragment.                        *)
(***************************************************************************)
EXTENDS Integers, Sequences, FiniteSets, TLC

VARIABLES inp, ix, prev_c, tag_stack, out, pc

vars == <<inp, ix, prev_c, tag_stack, out, pc>>

(***************************************************************************)
(* Bytes.  A byte is named by a token; ord gives its value.  "0xFF" stands *)
(* for a non-ASCII byte (not valid UTF-8 on its own).                      *)
(***************************************************************************)
ord(b) ==
    CASE b = "\t" -> 9
      [] b = "\n" -> 10
      [] b = "\r" -> 13
      [] b = " " -> 32
      [] b = "#" -> 35
      [] b = "(" -> 40
      [] b = ")" -> 41
      [] b = "*" -> 42
      [] b = "0" -> 48
      [] b = "1" -> 49
      [] b = "2" -> 50
      [] b = "9" -> 57
      [] b = ":" -> 58
      [] b = "[" -> 91
      [] b = "]" -> 93
      [] b = "^" -> 94
      [] b = "_" -> 95
      [] b = "a" -> 97
      [] b = "b" -> 98
      [] b = "h" -> 104
      [] b = "0xFF" -> 255

DigitChars == <<"0", "1", "2", "3", "4", "5", "6", "7", "8", "9">>

RECURSIVE Dec(_)
\* Display of an unsigned integer: its decimal digits, one token per digit.
Dec(n) ==
    IF n < 10 THEN <<DigitChars[n + 1]>>
    ELSE Dec(n \div 10) \o <<DigitChars[(n % 10) + 1]>>

\* {curr_char} in a format string: curr_char is a u8, so its Display is the
\* decimal value of the byte, not the byte.
Fmt(c) == Dec(ord(c))

\* Faulty variant: the commented-out arm `34 => C::Quote` is back.
from_u8_quote(v) ==
    CASE v = 32 \/ v = 9 -> "Whitespace"
      [] v = 10 \/ v = 13 -> "Newline"
      [] v = 95 -> "Underscore"
      [] v = 42 -> "Asterisk"
      [] v = 94 -> "Caret"
      [] v = 58 -> "Colon"
      [] v = 91 -> "SqBracketL"
      [] v = 93 -> "SqBracketR"
      [] v = 40 -> "ParenL"
      [] v = 41 -> "ParenR"
      [] v = 34 -> "Quote"
      [] v >= 48 /\ v <= 57 -> "Digit"
      [] OTHER -> "Content"

\* impl From<u8> for C (the classes of the first version of the enum).
from_u8(v) ==
    CASE v = 32 \/ v = 9 -> "Whitespace"
      [] v = 10 \/ v = 13 -> "Newline"
      [] v = 95 -> "Underscore"
      [] v = 42 -> "Asterisk"
      [] v = 94 -> "Caret"
      [] v = 58 -> "Colon"
      [] v = 91 -> "SqBracketL"
      [] v = 93 -> "SqBracketR"
      [] v = 40 -> "ParenL"
      [] v = 41 -> "ParenR"
      [] v >= 48 /\ v <= 57 -> "Digit"
      [] OTHER -> "Content"

\* The classifier the transcriber uses: the same, with `#` as Octothorpe.
classify_u8(v) == IF v = 35 THEN "Octothorpe" ELSE from_u8(v)

classify(b) == classify_u8(ord(b))

\* str::from_utf8(&[c]): a single byte is valid UTF-8 iff it is ASCII.
from_utf8_ok(c) == ord(c) < 128

\* crate::char_to_digit
char_to_digit(c) == ord(c) - 48

(***************************************************************************)
(* Tags (the stack element type).  One record shape for every variant:     *)
(* lvl is the level of H, st and url the state and buffer of Link, n the   *)
(* index of FootNoteLink / FootNoteRef.                                    *)
(***************************************************************************)
None == "None"

mk(k) == [k |-> k, lvl |-> 0, st |-> "", url |-> <<>>, n |-> 0]

NoTag == mk(None)
TagI == mk("I")
TagP == mk("P")
TagStrong == mk("Strong")

MaxLevel == 6

new_h == [mk("H") EXCEPT !.lvl = 1]
new_link(c) == [mk("Link") EXCEPT !.st = "Link", !.url = <<c>>]
new_fn_link(c) == [mk("FootNoteLink") EXCEPT !.n = char_to_digit(c)]
to_fn_ref(n) == [mk("FootNoteRef") EXCEPT !.n = n]

\* inc_h / inc_level: the level goes up by one unless it is already 6.
can_inc(t) == t.lvl < MaxLevel
inc_h(t) == IF can_inc(t) THEN [t EXCEPT !.lvl = t.lvl + 1] ELSE t

push_link(t, c) == [t EXCEPT !.url = Append(t.url, c)]
end_url(t) == [t EXCEPT !.st = "Label"]

\* The index of a footnote is a u8.
IxWidth == 8
IxMax == 2^IxWidth - 1

\* push_fn_digit: index := index * 10 + digit.  When the value does not fit
\* the index type, a build with overflow checks panics and a build without
\* them keeps the low IxWidth bits; push_fn_digit is the second outcome.
fn_digit_overflows(t, c) == t.n * 10 + char_to_digit(c) > IxMax
push_fn_digit(t, c) ==
    [t EXCEPT !.n = (t.n * 10 + char_to_digit(c)) % (IxMax + 1)]

RECURSIVE as_octothorpes(_)
as_octothorpes(l) == IF l = 0 THEN <<>> ELSE <<"#">> \o as_octothorpes(l - 1)

HOpen == <<"<h1>", "<h2>", "<h3>", "<h4>", "<h5>", "<h6>">>
HClose == <<"</h1>", "</h2>", "</h3>", "</h4>", "</h5>", "</h6>">>

write_open(t) ==
    CASE t.k = "H" -> <<HOpen[t.lvl]>>
      [] t.k = "I" -> <<"<i>">>
      [] t.k = "P" -> <<"<p>">>
      [] t.k = "Strong" -> <<"<strong>">>
      [] t.k = "Link" -> <<"<a href=\"">> \o t.url \o <<"\" target=\"_blank\">">>
      [] t.k = "FootNoteLink" ->
            <<"<a id=\"link-">> \o Dec(t.n) \o <<"\" target=\"#ref-">> \o Dec(t.n)
            \o <<"\">", "<sup>">> \o Dec(t.n) \o <<"</sup>", "</a>">>
      [] t.k = "FootNoteRef" ->
            <<"<p class=\"footnote\" id=\"ref-">> \o Dec(t.n)
            \o <<"\">", "<span class=\"footnote\">">> \o Dec(t.n)
            \o <<":", "</span>", " ">>

write_close(t) ==
    CASE t.k = "H" -> <<HClose[t.lvl]>>
      [] t.k = "I" -> <<"</i>">>
      [] t.k = "P" -> <<"</p>">>
      [] t.k = "Strong" -> <<"</strong>">>
      [] t.k = "Link" -> <<"</a>">>
      [] t.k = "FootNoteLink" -> <<>>
      [] t.k = "FootNoteRef" ->
            <<"<a href=\"#link-">> \o Dec(t.n) \o <<"\">", "U+1F519", "</a>", "</p>">>

write_link_no_title(t) ==
    <<"<a href=\"">> \o t.url \o <<"\" target=\"_blank\">">> \o t.url \o <<"</a>">>

(***************************************************************************)
(* The stack: front = innermost.                                           *)
(***************************************************************************)
stack_empty(s) == s = <<>>
Top(s) == IF s = <<>> THEN NoTag ELSE Head(s)
Rest(s) == IF s = <<>> THEN <<>> ELSE Tail(s)
Push(t, s) == <<t>> \o s

IsFn(t) == t.k \in {"FootNoteLink", "FootNoteRef"}

\* What a handler did: the tokens it wrote, the stack it left, the class it
\* returned for the next step (None: the byte's own class), and whether it
\* returned or panicked.
Res(w, s, nxt) == [w |-> w, stk |-> s, nxt |-> nxt, res |-> "ok"]
Ok(w, s) == Res(w, s, None)
Panic(w, s) == [w |-> w, stk |-> s, nxt |-> None, res |-> "panic"]

\* `if self.stack_empty() { Tag::P.write_open(output)?; self.push_tag(Tag::P) }`
\* evaluated on stack s: the tokens written and the stack left.
OpenPIfEmptyW(s) == IF s = <<>> THEN <<"<p>">> ELSE <<>>
OpenPIfEmptyS(s) == IF s = <<>> THEN <<TagP>> ELSE s

(***************************************************************************)
(* The handlers.  Each reads prev_c and tag_stack and is given the current *)
(* byte; pop_tag followed by push_tag of the same tag leaves the stack as  *)
(* it was, a pop that is not pushed back leaves Rest(tag_stack).           *)
(***************************************************************************)

\* `]` pending, resolved by a Whitespace or Newline byte (the same arm in
\* transcribe_whitespace and transcribe_newline).
blank_after_SqBracketR(c) ==
    LET t == Top(tag_stack)
        r == Rest(tag_stack)
    IN  CASE t.k = "Link" ->
               Ok(OpenPIfEmptyW(r) \o write_link_no_title(t) \o <<c>>, OpenPIfEmptyS(r))
          [] t.k = "FootNoteRef" -> Ok(write_close(t) \o <<c>>, r)
          [] t.k = "FootNoteLink" -> Ok(<<"[", "^">> \o Dec(t.n) \o <<"]">> \o Fmt(c), r)
          [] OTHER -> Ok(<<"]">> \o Fmt(c), tag_stack)

\* `(` pending
blank_after_ParenL(c) ==
    LET t == Top(tag_stack)
    IN  IF t.k = "Link"
        THEN Ok(<<"[">> \o t.url \o <<"]", "(">>, Rest(tag_stack))
        ELSE Ok(<<"(">>, tag_stack)

\* `)` pending
blank_after_ParenR(c) ==
    LET t == Top(tag_stack)
    IN  IF t.k = "Link"
        THEN Ok(write_close(t) \o <<c>>, Rest(tag_stack))
        ELSE Ok(<<c>>, tag_stack)

\* a digit pending
blank_after_Digit(c) ==
    LET t == Top(tag_stack)
    IN  IF IsFn(t)
        THEN Ok(<<"[", "^">> \o Dec(t.n) \o Fmt(c), Rest(tag_stack))
        ELSE Ok(<<c>>, tag_stack)

\* `[` pending
blank_after_SqBracketL(c) ==
    Ok(OpenPIfEmptyW(tag_stack) \o <<"[">> \o Fmt(c), OpenPIfEmptyS(tag_stack))


\* Faulty variant: the pending `_` is always taken as literal text.
whitespace_after_Underscore_literal(c) == Ok(<<"_">> \o Fmt(c), tag_stack)

whitespace_after_Underscore(c) ==
    LET t == Top(tag_stack)
    IN  IF t.k = "I"
        THEN Ok(write_close(TagI) \o <<c>>, Rest(tag_stack))
        ELSE Ok(<<"_">> \o Fmt(c), tag_stack)

whitespace_after_Asterisk(c) ==
    LET t == Top(tag_stack)
    IN  IF t.k = "Strong"
        THEN Ok(write_close(TagStrong) \o <<c>>, Rest(tag_stack))
        ELSE Ok(<<"*">> \o Fmt(c), tag_stack)


\* Faulty variant: the Whitespace byte after the heading marker is written too.
whitespace_after_Octothorpe_echo(c) ==
    LET t == Top(tag_stack)
    IN  IF t.k = "H"
        THEN Ok(write_open(t) \o <<c>>, tag_stack)
        ELSE Ok(<<"#">> \o Fmt(c), tag_stack)

whitespace_after_Octothorpe(c) ==
    LET t == Top(tag_stack)
    IN  IF t.k = "H"
        THEN Ok(write_open(t), tag_stack)
        ELSE Ok(<<"#">> \o Fmt(c), tag_stack)

whitespace_after_Colon(c) ==
    LET t == Top(tag_stack)
    IN  IF t.k = "FootNoteRef"
        THEN Ok(write_open(t) \o <<c>>, tag_stack)
        ELSE Ok(<<":">> \o Fmt(c), tag_stack)

transcribe_whitespace(c) ==
    CASE prev_c \in {"Whitespace", "Content"} -> Ok(<<c>>, tag_stack)
      [] prev_c = "Newline" -> Ok(<<"\n">> \o Fmt(c), tag_stack)
      [] prev_c = "Underscore" -> whitespace_after_Underscore(c)
      [] prev_c = "Asterisk" -> whitespace_after_Asterisk(c)
      [] prev_c = "Octothorpe" -> whitespace_after_Octothorpe(c)
      [] prev_c = "Caret" -> Ok(<<"[", "^">> \o Fmt(c), tag_stack)
      [] prev_c = "Colon" -> whitespace_after_Colon(c)
      [] prev_c = "SqBracketL" -> blank_after_SqBracketL(c)
      [] prev_c = "SqBracketR" -> blank_after_SqBracketR(c)
      [] prev_c = "ParenL" -> blank_after_ParenL(c)
      [] prev_c = "ParenR" -> blank_after_ParenR(c)
      [] prev_c = "Digit" -> blank_after_Digit(c)


\* Faulty variant: the commented-out write of the byte is back.
newline_after_text_echo(c) == Ok(<<c>>, tag_stack)

\* C::Whitespace | C::Content => ()  (the write of the byte is commented out)
newline_after_text(c) == Ok(<<>>, tag_stack)


\* Faulty variant: </p> is written but the Paragraph is pushed back.
newline_after_Newline_no_pop(c) ==
    LET t == Top(tag_stack)
    IN  CASE t.k = "P" -> Ok(write_close(t) \o <<c>>, tag_stack)
          [] t.k = None -> Ok(write_open(TagP), <<TagP>>)
          [] OTHER -> Ok(<<c>>, tag_stack)

newline_after_Newline(c) ==
    LET t == Top(tag_stack)
    IN  CASE t.k = "P" -> Ok(write_close(t) \o <<c>>, Rest(tag_stack))
          [] t.k = None -> Ok(write_open(TagP), <<TagP>>)
          [] OTHER -> Ok(<<c>>, tag_stack)

newline_after_Colon(c) ==
    LET t == Top(tag_stack)
    IN  IF t.k = "FootNoteRef"
        THEN Ok(<<"[", "^">> \o Dec(t.n) \o <<"]", ":">> \o Fmt(c), Rest(tag_stack))
        ELSE Ok(<<c>>, tag_stack)

newline_after_Underscore(c) ==
    LET t == Top(tag_stack)
    IN  IF t.k = "I"
        THEN Ok(write_close(TagI) \o <<c>>, Rest(tag_stack))
        ELSE Ok(<<"_">> \o Fmt(c), tag_stack)

\* the arm matches Tag::I, not Tag::Strong
newline_after_Asterisk(c) ==
    LET t == Top(tag_stack)
    IN  IF t.k = "I"
        THEN Ok(write_close(TagI) \o <<c>>, Rest(tag_stack))
        ELSE Ok(<<"*">> \o Fmt(c), tag_stack)

newline_after_Octothorpe(c) ==
    LET t == Top(tag_stack)
    IN  IF t.k = "H"
        THEN Ok(as_octothorpes(t.lvl) \o <<c>>, Rest(tag_stack))
        ELSE Ok(<<"#">> \o Fmt(c), tag_stack)

transcribe_newline(c) ==
    CASE prev_c \in {"Whitespace", "Content"} -> newline_after_text(c)
      [] prev_c = "Newline" -> newline_after_Newline(c)
      [] prev_c = "Digit" -> blank_after_Digit(c)
      [] prev_c = "Colon" -> newline_after_Colon(c)
      [] prev_c = "Underscore" -> newline_after_Underscore(c)
      [] prev_c = "Asterisk" -> newline_after_Asterisk(c)
      [] prev_c = "Octothorpe" -> newline_after_Octothorpe(c)
      [] prev_c = "Caret" -> Ok(<<"[", "^">> \o Fmt(c), tag_stack)
      [] prev_c = "SqBracketL" -> blank_after_SqBracketL(c)
      [] prev_c = "SqBracketR" -> blank_after_SqBracketR(c)
      [] prev_c = "ParenL" -> blank_after_ParenL(c)
      [] prev_c = "ParenR" -> blank_after_ParenR(c)

\* The arms of transcribe_underscore and transcribe_asterisk that do not
\* depend on the delimiter: a pending `]`, `(`, `)` or digit.
delim_after_SqBracketR ==
    LET t == Top(tag_stack)
        r == Rest(tag_stack)
    IN  CASE t.k = "Link" -> Ok(OpenPIfEmptyW(r) \o write_link_no_title(t), OpenPIfEmptyS(r))
          [] t.k = "FootNoteLink" -> Ok(write_open(t), r)
          [] OTHER -> Ok(<<"]">>, tag_stack)

delim_after_ParenL ==
    LET t == Top(tag_stack)
    IN  IF t.k = "Link"
        THEN Ok(<<"[">> \o t.url \o <<"]", "(">>, Rest(tag_stack))
        ELSE Ok(<<"(">>, tag_stack)

delim_after_ParenR ==
    LET t == Top(tag_stack)
    IN  IF t.k = "Link"
        THEN Ok(write_close(t), Rest(tag_stack))
        ELSE Ok(<<")">>, tag_stack)

delim_after_Digit ==
    LET t == Top(tag_stack)
    IN  IF t.k = "FootNoteRef"
        THEN Ok(<<"[", "^">> \o Dec(t.n) \o <<"]">>, Rest(tag_stack))
        ELSE Ok(<<>>, tag_stack)

underscore_after_Newline ==
    IF tag_stack # <<>>
    THEN Ok(<<"\n">> \o write_open(TagI), Push(TagI, tag_stack))
    ELSE Ok(<<"\n">> \o write_open(TagP) \o write_open(TagI), <<TagI, TagP>>)

underscore_after_Octothorpe ==
    LET t == Top(tag_stack)
    IN  IF t.k = "H"
        THEN Ok(write_open(t) \o write_open(TagI), Push(TagI, tag_stack))
        ELSE Ok(<<"#">> \o write_open(TagI), Push(TagI, tag_stack))

underscore_after_Colon ==
    LET t == Top(tag_stack)
    IN  CASE t.k = "FootNoteRef" ->
               Ok(write_open(t) \o write_open(TagI), Push(TagI, tag_stack))
          [] t.k = None ->
               Ok(<<":">> \o write_open(TagP) \o write_open(TagI), <<TagI, TagP>>)
          [] OTHER -> Ok(<<":">> \o write_open(TagI), Push(TagI, tag_stack))

transcribe_underscore ==
    CASE prev_c = "Whitespace" -> Ok(write_open(TagI), Push(TagI, tag_stack))
      [] prev_c = "Newline" -> underscore_after_Newline
      [] prev_c = "Octothorpe" -> underscore_after_Octothorpe
      [] prev_c = "Caret" -> Ok(<<"[", "^">>, tag_stack)
      [] prev_c = "Colon" -> underscore_after_Colon
      [] prev_c = "SqBracketL" ->
            Ok(OpenPIfEmptyW(tag_stack) \o <<"[">> \o write_open(TagI),
               Push(TagI, OpenPIfEmptyS(tag_stack)))
      [] prev_c \in {"Underscore", "Content"} -> Ok(<<>>, tag_stack)
      [] prev_c = "Asterisk" -> Ok(write_open(TagStrong), Push(TagStrong, tag_stack))
      [] prev_c = "SqBracketR" -> delim_after_SqBracketR
      [] prev_c = "ParenL" -> delim_after_ParenL
      [] prev_c = "ParenR" -> delim_after_ParenR
      [] prev_c = "Digit" -> delim_after_Digit

asterisk_after_Newline ==
    IF tag_stack # <<>>
    THEN Ok(<<"\n">> \o write_open(TagStrong), Push(TagStrong, tag_stack))
    ELSE Ok(<<"\n">> \o write_open(TagP) \o write_open(TagStrong), <<TagStrong, TagP>>)

\* without a heading on top the arm writes <i> and pushes Strong
asterisk_after_Octothorpe ==
    LET t == Top(tag_stack)
    IN  IF t.k = "H"
        THEN Ok(write_open(t) \o write_open(TagStrong), Push(TagStrong, tag_stack))
        ELSE Ok(<<"#">> \o write_open(TagI), Push(TagStrong, tag_stack))

asterisk_after_Colon ==
    LET t == Top(tag_stack)
    IN  CASE t.k = "FootNoteRef" ->
               Ok(write_open(t) \o write_open(TagStrong), Push(TagStrong, tag_stack))
          [] t.k = None ->
               Ok(<<":">> \o write_open(TagP) \o write_open(TagStrong), <<TagStrong, TagP>>)
          [] OTHER -> Ok(<<":">> \o write_open(TagStrong), Push(TagStrong, tag_stack))

transcribe_asterisk ==
    CASE prev_c = "Whitespace" -> Ok(write_open(TagStrong), Push(TagStrong, tag_stack))
      [] prev_c = "Newline" -> asterisk_after_Newline
      [] prev_c = "Octothorpe" -> asterisk_after_Octothorpe
      [] prev_c = "Caret" -> Ok(<<"[", "^">>, tag_stack)
      [] prev_c = "Colon" -> asterisk_after_Colon
      [] prev_c = "SqBracketL" ->
            Ok(OpenPIfEmptyW(tag_stack) \o <<"[">> \o write_open(TagStrong),
               Push(TagStrong, OpenPIfEmptyS(tag_stack)))
      [] prev_c \in {"Asterisk", "Content"} -> Ok(<<>>, tag_stack)
      [] prev_c = "Underscore" -> Ok(write_open(TagI), Push(TagI, tag_stack))
      [] prev_c = "SqBracketR" -> delim_after_SqBracketR
      [] prev_c = "ParenL" -> delim_after_ParenL
      [] prev_c = "ParenR" -> delim_after_ParenR
      [] prev_c = "Digit" -> delim_after_Digit

\* `#` at the start of a line: a heading on top is closed, a new pending
\* heading is pushed and Octothorpe is the class recorded.
octothorpe_after_Newline ==
    LET t == Top(tag_stack)
    IN  IF t.k = "H"
        THEN Res(write_close(t) \o <<"\n">>, Push(new_h, Rest(tag_stack)), "Octothorpe")
        ELSE Res(<<"\n">>, Push(new_h, tag_stack), "Octothorpe")


\* Faulty variant: at level 6 the heading is opened but the excess `#` is dropped.
octothorpe_after_Octothorpe_drop ==
    LET t == Top(tag_stack)
    IN  IF t.k = "H"
        THEN IF can_inc(t)
             THEN Res(<<>>, Push(inc_h(t), Rest(tag_stack)), "Octothorpe")
             ELSE Res(write_open(t), tag_stack, "Content")
        ELSE Res(<<"#">>, tag_stack, "Content")

\* `#` after `#`: the pending heading goes up a level; at level 6 it is
\* opened and this `#` is literal.
octothorpe_after_Octothorpe ==
    LET t == Top(tag_stack)
    IN  IF t.k = "H"
        THEN IF can_inc(t)
             THEN Res(<<>>, Push(inc_h(t), Rest(tag_stack)), "Octothorpe")
             ELSE Res(write_open(t) \o <<"#">>, tag_stack, "Content")
        ELSE Res(<<"#">>, tag_stack, "Content")

octothorpe_after_SqBracketL ==
    LET t == Top(tag_stack)
    IN  CASE t.k = None -> Res(write_open(TagP) \o <<"[", "#">>, <<TagP>>, "Content")
          [] t.k = "Link" \/ IsFn(t) -> Res(<<"[", "#">>, Rest(tag_stack), "Content")
          [] OTHER -> Res(<<"[", "#">>, tag_stack, "Content")

octothorpe_after_SqBracketR ==
    LET t == Top(tag_stack)
        r == Rest(tag_stack)
    IN  CASE t.k = "Link" ->
               Res(OpenPIfEmptyW(r) \o write_link_no_title(t) \o <<"#">>,
                   OpenPIfEmptyS(r), "Content")
          [] t.k = "FootNoteLink" -> Res(write_open(t) \o <<"#">>, r, "Content")
          [] t.k = "FootNoteRef" -> Res(write_open(t) \o <<"#">>, tag_stack, "Content")
          [] OTHER -> Res(<<"]", "#">>, tag_stack, "Content")

octothorpe_after_ParenL ==
    LET t == Top(tag_stack)
    IN  IF t.k = "Link"
        THEN Res(<<"#">>, tag_stack, "Content")
        ELSE Res(<<"(", "#">>, tag_stack, "Content")

octothorpe_after_ParenR ==
    LET t == Top(tag_stack)
    IN  IF t.k = "Link"
        THEN Res(write_close(t) \o <<"#">>, Rest(tag_stack), "Content")
        ELSE Res(<<")", "#">>, tag_stack, "Content")

octothorpe_after_Caret ==
    LET t == Top(tag_stack)
    IN  IF IsFn(t)
        THEN Res(<<"^", "#">>, Rest(tag_stack), "Content")
        ELSE Res(<<"^", "#">>, tag_stack, "Content")

octothorpe_after_Colon ==
    LET t == Top(tag_stack)
    IN  IF t.k = "FootNoteRef"
        THEN Res(write_open(t) \o <<"#">>, tag_stack, "Content")
        ELSE Res(<<":", "#">>, tag_stack, "Content")

octothorpe_after_Digit ==
    LET t == Top(tag_stack)
    IN  IF IsFn(t)
        THEN Res(<<"[", "^">> \o Dec(t.n) \o <<"#">>, Rest(tag_stack), "Content")
        ELSE Res(<<"#">>, tag_stack, "Content")

transcribe_octothorpe ==
    CASE prev_c \in {"Content", "Whitespace"} -> Res(<<"#">>, tag_stack, "Content")
      [] prev_c = "Newline" -> octothorpe_after_Newline
      [] prev_c = "Octothorpe" -> octothorpe_after_Octothorpe
      [] prev_c = "Asterisk" ->
            Res(write_open(TagStrong) \o <<"#">>, Push(TagStrong, tag_stack), "Content")
      [] prev_c = "Underscore" ->
            Res(write_open(TagI) \o <<"#">>, Push(TagI, tag_stack), "Content")
      [] prev_c = "SqBracketL" -> octothorpe_after_SqBracketL
      [] prev_c = "SqBracketR" -> octothorpe_after_SqBracketR
      [] prev_c = "ParenL" -> octothorpe_after_ParenL
      [] prev_c = "ParenR" -> octothorpe_after_ParenR
      [] prev_c = "Caret" -> octothorpe_after_Caret
      [] prev_c = "Colon" -> octothorpe_after_Colon
      [] prev_c = "Digit" -> octothorpe_after_Digit

transcribe_caret ==
    IF prev_c = "SqBracketL"
    THEN Ok(<<>>, tag_stack)
    ELSE Res(<<"^">>, tag_stack, "Content")

\* Faulty variant: the marker arm falls through to `Ok(Some(C::Content))`.
transcribe_colon_falls_through ==
    LET t == Top(tag_stack)
    IN  IF prev_c = "SqBracketR"
        THEN IF t.k = "FootNoteLink"
             THEN Res(<<>>, Push(to_fn_ref(t.n), Rest(tag_stack)), "Content")
             ELSE Res(<<"]", ":">>, tag_stack, "Content")
        ELSE IF t.k = "Link"
             THEN Res(<<>>, Push(push_link(t, ":"), Rest(tag_stack)), "Content")
             ELSE Res(<<":">>, tag_stack, "Content")

transcribe_colon ==
    LET t == Top(tag_stack)
    IN  IF prev_c = "SqBracketR"
        THEN IF t.k = "FootNoteLink"
             THEN Ok(<<>>, Push(to_fn_ref(t.n), Rest(tag_stack)))
             ELSE Res(<<"]", ":">>, tag_stack, "Content")
        ELSE IF t.k = "Link"
             THEN Res(<<>>, Push(push_link(t, ":"), Rest(tag_stack)), "Content")
             ELSE Res(<<":">>, tag_stack, "Content")

\* `*` then `[`: <strong> is written and Tag::I is pushed
sq_bracket_l_after_Asterisk == Ok(write_open(TagStrong), Push(TagI, tag_stack))

sq_bracket_l_after_Octothorpe ==
    LET t == Top(tag_stack)
    IN  IF t.k = "H" THEN Ok(write_open(t), tag_stack) ELSE Ok(<<"#">>, tag_stack)

sq_bracket_l_after_SqBracketR ==
    LET t == Top(tag_stack)
        r == Rest(tag_stack)
    IN  CASE t.k = "Link" -> Ok(OpenPIfEmptyW(r) \o write_link_no_title(t), OpenPIfEmptyS(r))
          [] t.k = None -> Ok(write_open(TagP), <<TagP>>)
          [] OTHER -> Ok(<<>>, tag_stack)

sq_bracket_l_after_ParenR ==
    LET t == Top(tag_stack)
    IN  CASE t.k = "Link" -> Ok(write_close(t), Rest(tag_stack))
          [] t.k = None -> Ok(<<>>, tag_stack)
          [] OTHER -> Ok(<<")">>, tag_stack)

sq_bracket_l_after_Digit ==
    LET t == Top(tag_stack)
    IN  IF IsFn(t)
        THEN Ok(<<"[", "^">> \o Dec(t.n) \o <<"]">>, Rest(tag_stack))
        ELSE Ok(<<>>, tag_stack)

sq_bracket_l_after_Colon ==
    LET t == Top(tag_stack)
    IN  IF t.k = "FootNoteRef" THEN Ok(write_open(t), tag_stack) ELSE Ok(<<>>, tag_stack)

sq_bracket_l_after_Newline ==
    LET t == Top(tag_stack)
    IN  CASE t.k = "H" -> Ok(write_close(t) \o <<"\n">>, Rest(tag_stack))
          [] t.k = None -> Ok(<<>>, tag_stack)
          [] OTHER -> Ok(<<"\n">>, tag_stack)

transcribe_sq_bracket_l ==
    CASE prev_c = "Underscore" -> Ok(write_open(TagI), Push(TagI, tag_stack))
      [] prev_c = "Asterisk" -> sq_bracket_l_after_Asterisk
      [] prev_c = "Octothorpe" -> sq_bracket_l_after_Octothorpe
      [] prev_c = "SqBracketL" ->
            Ok(OpenPIfEmptyW(tag_stack) \o <<"[">>, OpenPIfEmptyS(tag_stack))
      [] prev_c = "SqBracketR" -> sq_bracket_l_after_SqBracketR
      [] prev_c = "Caret" -> Ok(<<"[", "^">>, tag_stack)
      [] prev_c = "ParenR" -> sq_bracket_l_after_ParenR
      [] prev_c = "Digit" -> sq_bracket_l_after_Digit
      [] prev_c = "Colon" -> sq_bracket_l_after_Colon
      [] prev_c = "ParenL" -> delim_after_ParenL
      [] prev_c = "Newline" -> sq_bracket_l_after_Newline
      [] prev_c \in {"Content", "Whitespace"} -> Ok(<<>>, tag_stack)

\* The byte a pending punctuation class stands for.
as_char(cl) ==
    CASE cl = "Underscore" -> "_"
      [] cl = "Asterisk" -> "*"
      [] cl = "Caret" -> "^"
      [] cl = "Colon" -> ":"
      [] cl = "SqBracketL" -> "["
      [] cl = "SqBracketR" -> "]"
      [] cl = "ParenL" -> "("
      [] cl = "ParenR" -> ")"
      [] cl = "Octothorpe" -> "#"

\* `]` with a Link in URL mode on top
sq_bracket_r_Link ==
    LET t == Top(tag_stack)
    IN  CASE prev_c \in {"Whitespace", "Digit", "Content"} -> Ok(<<>>, tag_stack)
          [] prev_c = "Newline" -> Ok(t.url \o <<"\n", "]">>, Rest(tag_stack))
          [] OTHER -> Ok(<<>>, Push(push_link(t, as_char(prev_c)), Rest(tag_stack)))

\* `]` with a Link in label mode on top
sq_bracket_r_Label ==
    LET t == Top(tag_stack)
    IN  CASE prev_c \in {"Whitespace", "Digit", "Content"} -> Ok(<<>>, tag_stack)
          [] prev_c = "Newline" -> Ok(t.url \o <<"\n", "]">>, Rest(tag_stack))
          [] OTHER -> Ok(<<as_char(prev_c)>>, tag_stack)

transcribe_sq_bracket_r ==
    LET t == Top(tag_stack)
    IN  CASE t.k = "Link" /\ t.st = "Link" -> sq_bracket_r_Link
          [] t.k = "Link" /\ t.st = "Label" -> sq_bracket_r_Label
          [] IsFn(t) -> Ok(<<>>, tag_stack)
          [] t.k = None -> Res(write_open(TagP) \o <<"]">>, <<TagP>>, "Content")
          [] OTHER -> Res(<<"]">>, tag_stack, "Content")

\* `(` or `)` directly after `]`
paren_after_SqBracketR ==
    LET t == Top(tag_stack)
    IN  CASE t.k = "Link" /\ t.st = "Link" ->
               Ok(write_open(t), Push(end_url(t), Rest(tag_stack)))
          [] t.k = "FootNoteLink" -> Ok(write_open(t), Rest(tag_stack))
          [] t.k = None -> Ok(write_open(TagP) \o <<"]">>, <<TagP>>)
          [] OTHER -> Ok(<<"]">>, tag_stack)

paren_after_Octothorpe ==
    LET t == Top(tag_stack)
    IN  IF t.k = "H" THEN Ok(write_open(t), tag_stack) ELSE Ok(<<"#">>, tag_stack)

paren_after_Colon ==
    LET t == Top(tag_stack)
    IN  IF t.k = "FootNoteRef" THEN Ok(write_open(t), tag_stack) ELSE Ok(<<":">>, tag_stack)

paren_after_Digit ==
    LET t == Top(tag_stack)
    IN  IF IsFn(t)
        THEN Ok(<<"[", "^">> \o Dec(t.n), Rest(tag_stack))
        ELSE Ok(<<>>, tag_stack)

transcribe_paren ==
    CASE prev_c \in {"Whitespace", "Content", "Newline"} -> Ok(<<>>, tag_stack)
      [] prev_c = "SqBracketL" ->
            Ok(OpenPIfEmptyW(tag_stack) \o <<"[">>, OpenPIfEmptyS(tag_stack))
      [] prev_c = "ParenL" -> Ok(<<"(">>, tag_stack)
      [] prev_c = "ParenR" -> Ok(<<")">>, tag_stack)
      [] prev_c = "SqBracketR" -> paren_after_SqBracketR
      [] prev_c = "Underscore" -> Ok(write_open(TagI), Push(TagI, tag_stack))
      [] prev_c = "Asterisk" -> Ok(write_open(TagStrong), Push(TagStrong, tag_stack))
      [] prev_c = "Octothorpe" -> paren_after_Octothorpe
      [] prev_c = "Caret" -> Ok(<<"[", "^">>, tag_stack)
      [] prev_c = "Colon" -> paren_after_Colon
      [] prev_c = "Digit" -> paren_after_Digit

\* a digit directly after `^`
digit_after_Caret(c) ==
    LET t == Top(tag_stack)
    IN  IF IsFn(t)
        THEN Res(<<"[", "^">> \o Dec(t.n) \o Dec(char_to_digit(c)), Rest(tag_stack), "Content")
        ELSE Ok(<<>>, Push(new_fn_link(c), tag_stack))

digit_elsewhere(c) ==
    LET t == Top(tag_stack)
    IN  CASE IsFn(t) -> Ok(<<>>, Push(push_fn_digit(t, c), Rest(tag_stack)))
          [] t.k = "Link" ->
               IF from_utf8_ok(c)
               THEN Res(<<>>, Push(push_link(t, c), Rest(tag_stack)), "Content")
               ELSE Panic(<<>>, Rest(tag_stack))
          [] OTHER -> Res(<<c>>, tag_stack, "Content")

transcribe_digit(c) ==
    IF prev_c = "Caret" THEN digit_after_Caret(c) ELSE digit_elsewhere(c)

\* The outcomes of transcribe_digit the build can produce: where the index
\* overflows, the handler either returns with the wrapped index or panics
\* after pop_tag.
digit_outcomes(c) ==
    IF /\ prev_c # "Caret"
       /\ IsFn(Top(tag_stack))
       /\ fn_digit_overflows(Top(tag_stack), c)
    THEN {transcribe_digit(c), Panic(<<>>, Rest(tag_stack))}
    ELSE {transcribe_digit(c)}

\* Content after Whitespace or Content: a Link in URL mode buffers the byte
\* (str::from_utf8(..).unwrap() panics on a non-ASCII byte) and writes nothing.
content_after_text(c) ==
    LET t == Top(tag_stack)
    IN  CASE t.k = None -> Ok(write_open(TagP) \o <<c>>, <<TagP>>)
          [] t.k = "Link" /\ t.st = "Link" ->
               IF from_utf8_ok(c)
               THEN Ok(<<>>, Push(push_link(t, c), Rest(tag_stack)))
               ELSE Panic(<<>>, Rest(tag_stack))
          [] OTHER -> Ok(<<c>>, tag_stack)

\* Content at the start of a line
content_after_Newline(c) ==
    LET t == Top(tag_stack)
    IN  CASE t.k = "H" -> Ok(write_close(t) \o <<"\n", c>>, Rest(tag_stack))
          [] t.k = None -> Ok(write_open(TagP) \o <<c>>, <<TagP>>)
          [] OTHER -> Ok(<<"\n", c>>, tag_stack)

content_after_delim(c) ==
    IF tag_stack = <<>>
    THEN Ok(write_open(TagP) \o <<c>>, <<TagP>>)
    ELSE Ok(<<c>>, tag_stack)

content_after_Octothorpe(c) ==
    LET t == Top(tag_stack)
    IN  IF t.k = "H"
        THEN Ok(write_open(t) \o <<c>>, tag_stack)
        ELSE Ok(<<"#", c>>, tag_stack)

\* Faulty variant: the nested bracket keeps the earlier Link below the new one.
content_after_SqBracketL_keep(c) ==
    Ok(<<>>, Push(new_link(c), tag_stack))

\* Content after `[`: an unfinished Link on top is flushed literally; a new
\* Link seeded with the byte is pushed and the byte is not written.
content_after_SqBracketL(c) ==
    LET t == Top(tag_stack)
    IN  IF t.k = "Link"
        THEN Ok(<<"[">> \o t.url, Push(new_link(c), Rest(tag_stack)))
        ELSE Ok(<<>>, Push(new_link(c), tag_stack))

content_after_SqBracketR(c) ==
    LET t == Top(tag_stack)
    IN  CASE t.k \in {"Link", "FootNoteLink"} -> Ok(write_open(t) \o <<c>>, tag_stack)
          [] t.k = "FootNoteRef" ->
               Ok(<<"[", "^">> \o Dec(t.n) \o <<"]", c>>, Rest(tag_stack))
          [] t.k = None -> Ok(write_open(TagP) \o <<c>>, <<TagP>>)
          [] OTHER -> Ok(<<c>>, tag_stack)

content_after_ParenL(c) ==
    LET t == Top(tag_stack)
    IN  IF t.k = "Link" THEN Ok(<<c>>, tag_stack) ELSE Ok(<<"(", c>>, tag_stack)

content_after_ParenR(c) ==
    LET t == Top(tag_stack)
    IN  IF t.k = "Link"
        THEN Ok(write_close(t) \o <<c>>, Rest(tag_stack))
        ELSE Ok(<<")", c>>, tag_stack)

content_after_Digit(c) ==
    LET t == Top(tag_stack)
    IN  IF IsFn(t)
        THEN Ok(<<"[", "^">> \o Dec(t.n) \o <<c>>, Rest(tag_stack))
        ELSE Ok(<<c>>, tag_stack)

transcribe_content(c) ==
    CASE prev_c \in {"Whitespace", "Content"} -> content_after_text(c)
      [] prev_c = "Newline" -> content_after_Newline(c)
      [] prev_c \in {"Underscore", "Asterisk"} -> content_after_delim(c)
      [] prev_c = "Octothorpe" -> content_after_Octothorpe(c)
      [] prev_c = "Caret" -> Ok(<<"^", c>>, tag_stack)
      [] prev_c = "Colon" -> Ok(<<":", c>>, tag_stack)
      [] prev_c = "SqBracketL" -> content_after_SqBracketL(c)
      [] prev_c = "SqBracketR" -> content_after_SqBracketR(c)
      [] prev_c = "ParenL" -> content_after_ParenL(c)
      [] prev_c = "ParenR" -> content_after_ParenR(c)
      [] prev_c = "Digit" -> content_after_Digit(c)

(***************************************************************************)
(* finish: the pending class is resolved (the tag popped there is never    *)
(* pushed back), then the stack is drained.                                *)
(***************************************************************************)
finish_Octothorpe ==
    LET t == Top(tag_stack)
    IN  IF t.k = "H"
        THEN IF can_inc(t)
             THEN Ok(as_octothorpes(inc_h(t).lvl), Rest(tag_stack))
             ELSE Ok(as_octothorpes(t.lvl) \o <<"#">>, Rest(tag_stack))
        ELSE Ok(<<"#">>, Rest(tag_stack))

finish_SqBracketR ==
    LET t == Top(tag_stack)
        r == Rest(tag_stack)
    IN  CASE t.k = "Link" -> Ok(OpenPIfEmptyW(r) \o write_link_no_title(t), OpenPIfEmptyS(r))
          [] IsFn(t) -> Ok(write_close(t), r)
          [] OTHER -> Ok(<<"]">>, r)

\* the match on prev_c at the head of finish
finish_pending ==
    LET t == Top(tag_stack)
        r == Rest(tag_stack)
    IN  CASE prev_c \in {"Whitespace", "Newline", "Content"} -> Ok(<<>>, tag_stack)
          [] prev_c = "Underscore" ->
               IF t.k = "I" THEN Ok(write_close(t), r) ELSE Ok(<<"_">>, r)
          [] prev_c = "Asterisk" ->
               IF t.k = "Strong" THEN Ok(write_close(t), r) ELSE Ok(<<"*">>, r)
          [] prev_c = "Octothorpe" -> finish_Octothorpe
          [] prev_c = "Caret" -> Ok(<<"[", "^">>, tag_stack)
          [] prev_c = "Colon" ->
               IF t.k = "FootNoteRef"
               THEN Ok(<<"[", "^">> \o Dec(t.n) \o <<"]", ":">>, r)
               ELSE Ok(<<":">>, r)
          [] prev_c = "SqBracketL" -> Ok(<<"[">>, tag_stack)
          [] prev_c = "SqBracketR" -> finish_SqBracketR
          [] prev_c = "ParenL" ->
               IF t.k = "Link"
               THEN Ok(write_link_no_title(t) \o <<"(">>, r)
               ELSE Ok(<<"(">>, r)
          [] prev_c = "ParenR" ->
               IF t.k = "Link" THEN Ok(write_close(t), r) ELSE Ok(<<")">>, r)
          [] prev_c = "Digit" ->
               IF IsFn(t) THEN Ok(<<"[", "^">> \o Dec(t.n), r) ELSE Ok(<<>>, r)

\* what the drain loop writes for one popped tag
drain_one(t) ==
    CASE t.k \in {"H", "I", "P", "Strong", "FootNoteRef"} -> write_close(t)
      [] t.k = "Link" -> <<"[">> \o t.url
      [] t.k = "FootNoteLink" -> <<"[", "^">> \o Dec(t.n) \o <<"]">>

\* Faulty variant: the drain takes the stack from the bottom up.
RECURSIVE drain_loop_outermost_first(_, _)
drain_loop_outermost_first(s, w) ==
    IF s = <<>> THEN [w |-> w, stk |-> s]
    ELSE drain_loop_outermost_first(SubSeq(s, 1, Len(s) - 1), w \o drain_one(s[Len(s)]))

\* `while let Some(tag) = self.pop_tag() { ... }`: the loop run on stack s
\* with w written so far; the tokens written and the stack left at its end.
RECURSIVE drain_loop(_, _)
drain_loop(s, w) ==
    IF s = <<>> THEN [w |-> w, stk |-> s]
    ELSE drain_loop(Tail(s), w \o drain_one(Head(s)))


\* Faulty variant: `if let` for `while let`: only the top tag is popped.
drain_once(s) ==
    IF s = <<>> THEN [w |-> <<>>, stk |-> s]
    ELSE [w |-> drain_one(Head(s)), stk |-> Tail(s)]

drain(s) == drain_loop(s, <<>>)

finish_result ==
    LET p == finish_pending
        d == drain(p.stk)
    IN  [w |-> p.w \o d.w, stk |-> d.stk]

(***************************************************************************)
(* The state machine.                                                      *)
(***************************************************************************)

\* Transcriber::new
Init ==
    /\ inp = <<>>
    /\ ix = 0
    /\ prev_c = "Newline"
    /\ tag_stack = <<>>
    /\ out = <<>>
    /\ pc = "run"

\* Faulty variant: the cursor moves only when the handler names no next class.
Apply_stuck(b, r) ==
    /\ inp' = Append(inp, b)
    /\ out' = out \o r.w
    /\ tag_stack' = r.stk
    /\ IF r.res = "ok"
       THEN /\ prev_c' = (IF r.nxt = None THEN classify(b) ELSE r.nxt)
            /\ ix' = (IF r.nxt = None THEN ix + 1 ELSE ix)
            /\ pc' = pc
       ELSE /\ pc' = "panic"
            /\ UNCHANGED <<prev_c, ix>>

\* The body of transcribe once the handler has run on byte b with result r:
\* prev_c and ix are updated only when the handler returned.
Apply(b, r) ==
    /\ inp' = Append(inp, b)
    /\ out' = out \o r.w
    /\ tag_stack' = r.stk
    /\ IF r.res = "ok"
       THEN /\ prev_c' = (IF r.nxt = None THEN classify(b) ELSE r.nxt)
            /\ ix' = ix + 1
            /\ pc' = pc
       ELSE /\ pc' = "panic"
            /\ UNCHANGED <<prev_c, ix>>

\* transcribe is called with ix < input length; n bounds that length.
CanRead(n, b, cl) == pc = "run" /\ ix < n /\ classify(b) = cl

TranscribeWhitespace(A, n) ==
    \E b \in A : CanRead(n, b, "Whitespace") /\ Apply(b, transcribe_whitespace(b))

TranscribeNewline(A, n) ==
    \E b \in A : CanRead(n, b, "Newline") /\ Apply(b, transcribe_newline(b))

TranscribeUnderscore(A, n) ==
    \E b \in A : CanRead(n, b, "Underscore") /\ Apply(b, transcribe_underscore)

TranscribeAsterisk(A, n) ==
    \E b \in A : CanRead(n, b, "Asterisk") /\ Apply(b, transcribe_asterisk)

TranscribeOctothorpe(A, n) ==
    \E b \in A : CanRead(n, b, "Octothorpe") /\ Apply(b, transcribe_octothorpe)

TranscribeCaret(A, n) ==
    \E b \in A : CanRead(n, b, "Caret") /\ Apply(b, transcribe_caret)

TranscribeColon(A, n) ==
    \E b \in A : CanRead(n, b, "Colon") /\ Apply(b, transcribe_colon)

TranscribeSqBracketL(A, n) ==
    \E b \in A : CanRead(n, b, "SqBracketL") /\ Apply(b, transcribe_sq_bracket_l)

TranscribeSqBracketR(A, n) ==
    \E b \in A : CanRead(n, b, "SqBracketR") /\ Apply(b, transcribe_sq_bracket_r)

TranscribeParen(A, n) ==
    \E b \in A : /\ (CanRead(n, b, "ParenL") \/ CanRead(n, b, "ParenR"))
                 /\ Apply(b, transcribe_paren)

TranscribeDigit(A, n) ==
    \E b \in A : CanRead(n, b, "Digit") /\ \E r \in digit_outcomes(b) : Apply(b, r)

TranscribeContent(A, n) ==
    \E b \in A : CanRead(n, b, "Content") /\ Apply(b, transcribe_content(b))

\* finish, called once by the driver when the input is exhausted; every
\* prefix of an input is an input, so it may follow any step.
Finish ==
    /\ pc = "run"
    /\ out' = out \o finish_result.w
    /\ tag_stack' = finish_result.stk
    /\ pc' = "done"
    /\ UNCHANGED <<inp, ix, prev_c>>

\* One representative byte of every class, and a non-ASCII Content byte.
Bytes == {" ", "\n", "_", "*", "#", "^", ":", "[", "]", "(", ")", "1", "a", "0xFF"}

MaxLen == 4

Next ==
    \/ TranscribeWhitespace(Bytes, MaxLen)
    \/ TranscribeNewline(Bytes, MaxLen)
    \/ TranscribeUnderscore(Bytes, MaxLen)
    \/ TranscribeAsterisk(Bytes, MaxLen)
    \/ TranscribeOctothorpe(Bytes, MaxLen)
    \/ TranscribeCaret(Bytes, MaxLen)
    \/ TranscribeColon(Bytes, MaxLen)
    \/ TranscribeSqBracketL(Bytes, MaxLen)
    \/ TranscribeSqBracketR(Bytes, MaxLen)
    \/ TranscribeParen(Bytes, MaxLen)
    \/ TranscribeDigit(Bytes, MaxLen)
    \/ TranscribeContent(Bytes, MaxLen)
    \/ Finish

Spec == Init /\ [][Next]_vars

\* Paragraph text: content, blanks and line breaks.
TextBytes == {"a", "b", " ", "\n", "\r"}

MaxTextLen == 6

NextText ==
    \/ TranscribeWhitespace(TextBytes, MaxTextLen)
    \/ TranscribeNewline(TextBytes, MaxTextLen)
    \/ TranscribeContent(TextBytes, MaxTextLen)
    \/ Finish

SpecText == Init /\ [][NextText]_vars

\* Emphasis: the two delimiters, a blank and content.
InlineBytes == {"_", "*", " ", "a", "b"}

MaxInlineLen == 7

NextInline ==
    \/ TranscribeWhitespace(InlineBytes, MaxInlineLen)
    \/ TranscribeUnderscore(InlineBytes, MaxInlineLen)
    \/ TranscribeAsterisk(InlineBytes, MaxInlineLen)
    \/ TranscribeContent(InlineBytes, MaxInlineLen)
    \/ Finish

SpecInline == Init /\ [][NextInline]_vars

\* One heading line, long enough for more than six `#`.
HashBytes == {"#", " ", "h"}

MaxHashLen == 10

NextHashes ==
    \/ TranscribeWhitespace(HashBytes, MaxHashLen)
    \/ TranscribeOctothorpe(HashBytes, MaxHashLen)
    \/ TranscribeContent(HashBytes, MaxHashLen)
    \/ Finish

SpecHashes == Init /\ [][NextHashes]_vars

\* A heading line and the line after it.
HeadBytes == {"#", " ", "h", "\n", "_", "1"}

MaxHeadLen == 6

NextHeading ==
    \/ TranscribeWhitespace(HeadBytes, MaxHeadLen)
    \/ TranscribeNewline(HeadBytes, MaxHeadLen)
    \/ TranscribeUnderscore(HeadBytes, MaxHeadLen)
    \/ TranscribeOctothorpe(HeadBytes, MaxHeadLen)
    \/ TranscribeDigit(HeadBytes, MaxHeadLen)
    \/ TranscribeContent(HeadBytes, MaxHeadLen)
    \/ Finish

SpecHeading == Init /\ [][NextHeading]_vars

\* Links: brackets, parentheses and URL bytes of the three classes a URL
\* is made of.
LinkBytes == {"[", "]", "(", ")", "a", ":", "1"}

MaxLinkLen == 6

NextLink ==
    \/ TranscribeColon(LinkBytes, MaxLinkLen)
    \/ TranscribeSqBracketL(LinkBytes, MaxLinkLen)
    \/ TranscribeSqBracketR(LinkBytes, MaxLinkLen)
    \/ TranscribeParen(LinkBytes, MaxLinkLen)
    \/ TranscribeDigit(LinkBytes, MaxLinkLen)
    \/ TranscribeContent(LinkBytes, MaxLinkLen)
    \/ Finish

SpecLink == Init /\ [][NextLink]_vars

\* A footnote marker after text: content, `[`, `^`, two digits and `]`.
FootBytes == {"a", "[", "^", "1", "2", "]"}

MaxFootLen == 6

NextFoot ==
    \/ TranscribeCaret(FootBytes, MaxFootLen)
    \/ TranscribeSqBracketL(FootBytes, MaxFootLen)
    \/ TranscribeSqBracketR(FootBytes, MaxFootLen)
    \/ TranscribeDigit(FootBytes, MaxFootLen)
    \/ TranscribeContent(FootBytes, MaxFootLen)
    \/ Finish

SpecFoot == Init /\ [][NextFoot]_vars

\* A footnote definition line `[^n]:` and its body: the first HeaderLen
\* bytes are drawn from the marker's bytes, the rest from body bytes.
HeaderLen == 5

FootDefBytes == IF ix < HeaderLen THEN {"[", "^", "1", "]", ":"} ELSE {" ", "a", "\n"}

MaxFootDefLen == 9

NextFootDef ==
    \/ TranscribeWhitespace(FootDefBytes, MaxFootDefLen)
    \/ TranscribeNewline(FootDefBytes, MaxFootDefLen)
    \/ TranscribeCaret(FootDefBytes, MaxFootDefLen)
    \/ TranscribeColon(FootDefBytes, MaxFootDefLen)
    \/ TranscribeSqBracketL(FootDefBytes, MaxFootDefLen)
    \/ TranscribeSqBracketR(FootDefBytes, MaxFootDefLen)
    \/ TranscribeDigit(FootDefBytes, MaxFootDefLen)
    \/ TranscribeContent(FootDefBytes, MaxFootDefLen)
    \/ Finish

SpecFootDef == Init /\ [][NextFootDef]_vars

\* The classifier alone, on every byte value: the input is one byte of any
\* value, and Classify is `let curr_c: C = curr_char.into()` on it, the
\* class kept in prev_c.
ByteValues == 0..255

InitClassify ==
    /\ inp \in {<<v>> : v \in ByteValues}
    /\ ix = 0
    /\ prev_c = "Newline"
    /\ tag_stack = <<>>
    /\ out = <<>>
    /\ pc = "run"

Classify ==
    /\ pc = "run"
    /\ prev_c' = classify_u8(inp[1])
    /\ pc' = "done"
    /\ UNCHANGED <<inp, ix, tag_stack, out>>

\* the classes the match of transcribe has an arm for
DispatchClasses ==
    {"Whitespace", "Newline", "Underscore", "Asterisk", "Octothorpe", "Caret", "Colon",
     "SqBracketL", "SqBracketR", "ParenL", "ParenR", "Digit", "Content"}

SpecClassify == InitClassify /\ [][Classify]_vars

\* The match of transcribe on the class of the current byte: the result of
\* the handler it calls.
handle(b) ==
    LET cl == classify(b)
    IN  CASE cl = "Whitespace" -> transcribe_whitespace(b)
          [] cl = "Newline" -> transcribe_newline(b)
          [] cl = "Underscore" -> transcribe_underscore
          [] cl = "Asterisk" -> transcribe_asterisk
          [] cl = "Octothorpe" -> transcribe_octothorpe
          [] cl = "Caret" -> transcribe_caret
          [] cl = "Colon" -> transcribe_colon
          [] cl = "SqBracketL" -> transcribe_sq_bracket_l
          [] cl = "SqBracketR" -> transcribe_sq_bracket_r
          [] cl \in {"ParenL", "ParenR"} -> transcribe_paren
          [] cl = "Digit" -> transcribe_digit(b)
          [] cl = "Content" -> transcribe_content(b)

\* Faulty variant: the error is noticed only after prev_c and ix are updated.
Fail_late(b, r, k) ==
    /\ inp' = Append(inp, b)
    /\ out' = out \o SubSeq(r.w, 1, k)
    /\ pc' = "io_error"
    /\ prev_c' = (IF r.nxt = None THEN classify(b) ELSE r.nxt)
    /\ ix' = ix + 1

\* A write of the handler fails after k tokens of what it writes reached the
\* sink: `?` returns the error from the handler and from transcribe, before
\* `self.prev_c = ...; self.ix += 1`.
Fail(b, r, k) ==
    /\ inp' = Append(inp, b)
    /\ out' = out \o SubSeq(r.w, 1, k)
    /\ pc' = "io_error"
    /\ UNCHANGED <<prev_c, ix>>

\* transcribe on a sink that fails during the step.  The handler pops before
\* it writes and pushes before or after, so the stack is left as it was,
\* without its top, as the handler leaves it, or that without its top.
TranscribeFails(A, n) ==
    \E b \in A :
        /\ pc = "run"
        /\ ix < n
        /\ LET r == handle(b)
           IN  /\ r.res = "ok"
               /\ \E k \in 0..(Len(r.w) - 1) : Fail(b, r, k)
               /\ tag_stack' \in {tag_stack, Rest(tag_stack), r.stk, Rest(r.stk)}

\* A sink that may fail: paragraph text and one delimiter.
SinkBytes == {"a", " ", "\n", "_"}

MaxSinkLen == 5

NextSink ==
    \/ TranscribeWhitespace(SinkBytes, MaxSinkLen)
    \/ TranscribeNewline(SinkBytes, MaxSinkLen)
    \/ TranscribeUnderscore(SinkBytes, MaxSinkLen)
    \/ TranscribeContent(SinkBytes, MaxSinkLen)
    \/ TranscribeFails(SinkBytes, MaxSinkLen)
    \/ Finish

SpecSink == Init /\ [][NextSink]_vars

\* Footnote markers and definitions: `[^1]`, `[^1]:`, text around them.
MarkerBytes == {"a", "[", "^", "1", "]", ":"}

MaxMarkerLen == 6

NextMarker ==
    \/ TranscribeCaret(MarkerBytes, MaxMarkerLen)
    \/ TranscribeColon(MarkerBytes, MaxMarkerLen)
    \/ TranscribeSqBracketL(MarkerBytes, MaxMarkerLen)
    \/ TranscribeSqBracketR(MarkerBytes, MaxMarkerLen)
    \/ TranscribeDigit(MarkerBytes, MaxMarkerLen)
    \/ TranscribeContent(MarkerBytes, MaxMarkerLen)
    \/ Finish

SpecMarker == Init /\ [][NextMarker]_vars

(***************************************************************************)
(* Reading the output and the input.                                       *)
(***************************************************************************)
Range(s) == {s[i] : i \in DOMAIN s}

OpenToks ==
    {"<p>", "<i>", "<strong>", "<a href=\"", "<a id=\"link-", "<a href=\"#link-",
     "<p class=\"footnote\" id=\"ref-", "<sup>", "<span class=\"footnote\">"}
    \cup Range(HOpen)

CloseToks == {"</p>", "</i>", "</strong>", "</a>", "</sup>", "</span>"} \cup Range(HClose)

\* the element a tag token opens or closes
Elem(tok) ==
    CASE tok \in {"<p>", "<p class=\"footnote\" id=\"ref-", "</p>"} -> "p"
      [] tok \in {"<i>", "</i>"} -> "i"
      [] tok \in {"<strong>", "</strong>"} -> "strong"
      [] tok \in {"<a href=\"", "<a id=\"link-", "<a href=\"#link-", "</a>"} -> "a"
      [] tok \in {"<sup>", "</sup>"} -> "sup"
      [] tok \in {"<span class=\"footnote\">", "</span>"} -> "span"
      [] \E l \in 1..MaxLevel : tok \in {HOpen[l], HClose[l]} ->
            HOpen[CHOOSE l \in 1..MaxLevel : tok \in {HOpen[l], HClose[l]}]

RECURSIVE BalancedFrom(_, _)
\* toks read with the elements in open still open (innermost first)
BalancedFrom(toks, open) ==
    IF toks = <<>> THEN open = <<>>
    ELSE LET t == Head(toks)
         IN  CASE t \in OpenToks -> BalancedFrom(Tail(toks), <<Elem(t)>> \o open)
               [] t \in CloseToks ->
                    /\ open # <<>>
                    /\ Head(open) = Elem(t)
                    /\ BalancedFrom(Tail(toks), Tail(open))
               [] OTHER -> BalancedFrom(Tail(toks), open)

Balanced(toks) == BalancedFrom(toks, <<>>)

\* s is a non-empty run of bytes whose classes are all in cls
IsRun(s, cls) == s # <<>> /\ \A i \in DOMAIN s : classify(s[i]) \in cls

Count(s, x) == Cardinality({i \in DOMAIN s : s[i] = x})

RECURSIVE Hashes(_)
Hashes(k) == IF k = 0 THEN <<>> ELSE <<"#">> \o Hashes(k - 1)

\* the tokens the step just taken appended to the sink
Written == SubSeq(out', Len(out) + 1, Len(out'))

(***************************************************************************)
(* Claims.                                                                 *)
(***************************************************************************)

\* C1: when finish has returned, the output is balanced: every open tag
\* written is closed later by its matching close tag, properly nested.
C1_OutputBalanced == pc = "done" => Balanced(out)

\* C2: finish can run from every state the engine reaches and leaves the
\* tag stack empty.
C2_FinishEmptiesStack ==
    /\ pc = "run" => ENABLED Finish
    /\ pc = "done" => tag_stack = <<>>

\* finish drained three open tags: Strong inside Italic inside Paragraph.
C2_Witness ==
    /\ pc = "done"
    /\ tag_stack = <<>>
    /\ Len(out) >= 3
    /\ SubSeq(out, Len(out) - 2, Len(out)) = <<"</strong>", "</i>", "</p>">>

\* C3: no transcribe step and no finish panics, whatever the bytes.
C3_NoPanic == pc # "panic"

\* The input read so far is a run r1 of Content bytes, two Newline bytes (the
\* second at i + 1) and a possibly empty run of Content bytes.
C4_Shape(i) ==
    /\ i \in 2..(Len(inp) - 1)
    /\ IsRun(SubSeq(inp, 1, i - 1), {"Content"})
    /\ classify(inp[i]) = "Newline"
    /\ classify(inp[i + 1]) = "Newline"
    /\ \A j \in (i + 2)..Len(inp) : classify(inp[j]) = "Content"

\* C4: two runs of Content bytes separated by exactly two Newline bytes are
\* two paragraphs: the second Newline pops the Paragraph and writes </p> and
\* one line break, the first byte of the second run opens a new <p>, and
\* finish closes it.
C4_TwoParagraphs ==
    \A i \in 2..(Len(inp) - 1) :
        C4_Shape(i) =>
            LET r1 == SubSeq(inp, 1, i - 1)
                r2 == SubSeq(inp, i + 2, Len(inp))
                first == <<"<p>">> \o r1 \o <<"</p>", inp[i + 1]>>
            IN  IF r2 = <<>>
                THEN out = first /\ tag_stack = <<>>
                ELSE /\ pc = "run" => (out = first \o <<"<p>">> \o r2 /\ tag_stack = <<TagP>>)
                     /\ pc = "done" => out = first \o <<"<p>">> \o r2 \o <<"</p>">>

\* finish has returned on two two-byte runs separated by two Newline bytes.
C4_Witness == pc = "done" /\ Len(inp) = 6 /\ C4_Shape(3)

\* The input read so far is a run of Content and Whitespace bytes that starts
\* with a Content byte, one Newline byte at i, and such a run again (or nothing).
C5_Shape(i) ==
    /\ i \in 2..Len(inp)
    /\ IsRun(SubSeq(inp, 1, i - 1), {"Content", "Whitespace"})
    /\ classify(inp[1]) = "Content"
    /\ classify(inp[i]) = "Newline"
    /\ \A j \in (i + 1)..Len(inp) : classify(inp[j]) \in {"Content", "Whitespace"}
    /\ i < Len(inp) => classify(inp[i + 1]) = "Content"

\* C5: a single Newline between content bytes writes nothing and leaves the
\* Paragraph on the stack; the next content byte is preceded by exactly one
\* line break and no tag, and there is no line break before <p>.
C5_SingleNewlineKeepsParagraph ==
    \A i \in 2..Len(inp) :
        C5_Shape(i) =>
            LET r1 == SubSeq(inp, 1, i - 1)
                r2 == SubSeq(inp, i + 1, Len(inp))
                body == <<"<p>">> \o r1 \o (IF r2 = <<>> THEN <<>> ELSE <<"\n">> \o r2)
            IN  /\ pc = "run" => (out = body /\ tag_stack = <<TagP>>)
                /\ pc = "done" => out = body \o <<"</p>">>

\* finish has returned on `a \nb`.
C5_Witness == pc = "done" /\ inp = <<"a", " ", "\n", "b">> /\ C5_Shape(3)

\* The input read so far starts with `_`, a run t of Content bytes, `_` at i
\* and a Whitespace byte.
C6_ItalicShape(i) ==
    /\ i \in 3..(Len(inp) - 1)
    /\ inp[1] = "_"
    /\ IsRun(SubSeq(inp, 2, i - 1), {"Content"})
    /\ inp[i] = "_"
    /\ classify(inp[i + 1]) = "Whitespace"

\* ... and goes on with `*`, a run u of Content bytes and `*` as its last byte.
C6_Shape(i) ==
    /\ C6_ItalicShape(i)
    /\ Len(inp) >= i + 4
    /\ inp[i + 2] = "*"
    /\ IsRun(SubSeq(inp, i + 3, Len(inp) - 1), {"Content"})
    /\ inp[Len(inp)] = "*"

\* C6: `_t_ *u*` at the start of the input yields a line break and
\* <p><i>t</i> <strong>u</strong></p>: the first `_` opens Paragraph and
\* Italic, the Whitespace after the second `_` pops Italic and writes </i>
\* before itself, and finish pops Strong for the last `*`.
C6_InlinePair ==
    /\ (inp = <<"_">> /\ pc = "run") =>
            (out = <<"\n", "<p>", "<i>">> /\ tag_stack = <<TagI, TagP>>)
    /\ \A i \in 3..(Len(inp) - 1) :
        LET t == SubSeq(inp, 2, i - 1)
            u == SubSeq(inp, i + 3, Len(inp) - 1)
            italic == <<"\n", "<p>", "<i>">> \o t \o <<"</i>", inp[i + 1]>>
        IN  /\ (C6_ItalicShape(i) /\ Len(inp) = i + 1 /\ pc = "run") =>
                    (out = italic /\ tag_stack = <<TagP>>)
            /\ (C6_Shape(i) /\ pc = "done") =>
                    out = italic \o <<"<strong>">> \o u \o <<"</strong>", "</p>">>

\* finish has returned on `_a_ *b*`.
C6_Witness == pc = "done" /\ Len(inp) = 7 /\ C6_Shape(3)

\* the k-th occurrence of tok in w (0 if there is none)
NthPos(w, tok, k) ==
    LET hits == {j \in DOMAIN w : w[j] = tok /\ Cardinality({q \in 1..j : w[q] = tok}) = k}
    IN  IF hits = {} THEN 0 ELSE CHOOSE j \in hits : TRUE

\* C7: every Italic or Strong on the stack when finish is called gets its
\* close tag from finish, written before the close tag of every Paragraph or
\* Heading below it.
C7_EmphasisClosedAtFinish ==
    [][(pc = "run" /\ pc' = "done") =>
        \A i \in DOMAIN tag_stack :
            tag_stack[i].k \in {"I", "Strong"} =>
                LET tok == write_close(tag_stack[i])[1]
                    rank == Cardinality({q \in 1..i : tag_stack[q].k = tag_stack[i].k})
                    at == NthPos(Written, tok, rank)
                IN  /\ at > 0
                    /\ \A m \in (i + 1)..Len(tag_stack) :
                          tag_stack[m].k \in {"P", "H"} =>
                              \A q \in DOMAIN Written :
                                  Written[q] = write_close(tag_stack[m])[1] => at < q
      ]_vars

\* The input read so far is k `#`, one Whitespace byte and a possibly empty
\* run of Content bytes.
C8_Shape(k) ==
    /\ Len(inp) >= k + 1
    /\ SubSeq(inp, 1, k) = Hashes(k)
    /\ classify(inp[k + 1]) = "Whitespace"
    /\ \A j \in (k + 2)..Len(inp) : classify(inp[j]) = "Content"

H(k) == [mk("H") EXCEPT !.lvl = k]

\* C8: for 1 <= k <= 6, k `#` at the start, a Whitespace byte and content c
\* yield a line break and <hk>c</hk>: nothing but the line break is written
\* for the `#`, the open tag is written when the Whitespace byte is read, and
\* that byte is not written.
C8_HeadingLine ==
    \A k \in 1..MaxLevel :
        /\ (inp = Hashes(k) /\ pc = "run") => (out = <<"\n">> /\ tag_stack = <<H(k)>>)
        /\ C8_Shape(k) =>
              LET c == SubSeq(inp, k + 2, Len(inp))
              IN  /\ pc = "run" => (out = <<"\n", HOpen[k]>> \o c /\ tag_stack = <<H(k)>>)
                  /\ pc = "done" => out = <<"\n", HOpen[k]>> \o c \o <<HClose[k]>>

\* finish has returned on `###### h`.
C8_Witness == pc = "done" /\ Len(inp) = 8 /\ C8_Shape(6) /\ inp[8] = "h"

\* C9: every Heading on the stack has a level from 1 to 6; after 6 + m `#`
\* at the start (m >= 1) the heading is open at level 6 and m literal `#`
\* follow its open tag, so 6 + m `#`, a blank and c yield <h6>, m `#`, the
\* blank, c and </h6>.
C9_LevelSaturates ==
    /\ \A i \in DOMAIN tag_stack : tag_stack[i].k = "H" => tag_stack[i].lvl \in 1..6
    /\ \A m \in 1..Len(inp) :
        LET k == 6 + m
            c == SubSeq(inp, k + 2, Len(inp))
            head == <<"\n", "<h6>">> \o Hashes(m)
        IN  /\ (inp = Hashes(k) /\ pc = "run") => (out = head /\ tag_stack = <<H(6)>>)
            /\ (C8_Shape(k) /\ pc = "done") =>
                    out = head \o <<inp[k + 1]>> \o c \o <<"</h6>">>

\* finish has returned on seven `#`, a blank and `h`.
C9_Witness == pc = "done" /\ Len(inp) = 9 /\ C8_Shape(7) /\ inp[9] = "h"

\* C10: when a heading line (k `#`, a Whitespace byte, content) is ended by
\* a Newline, the heading's close tag is written before anything of the
\* next line, whatever the class of that line's first byte.
C10_HeadingClosedBeforeNextLine ==
    \A k \in 1..MaxLevel :
        LET n == Len(inp)
        IN  ( /\ pc = "run"
              /\ n >= k + 4
              /\ SubSeq(inp, 1, k) = Hashes(k)
              /\ classify(inp[k + 1]) = "Whitespace"
              /\ IsRun(SubSeq(inp, k + 2, n - 2), {"Content", "Digit"})
              /\ classify(inp[n - 1]) = "Newline"
              /\ classify(inp[n]) # "Newline" )
            => (Len(out) >= n - k /\ out[n - k] = HClose[k])

UrlClasses == {"Content", "Colon", "Digit"}

\* the anchor of a link to url with visible text txt
Anchor(url, txt) ==
    <<"<a href=\"">> \o url \o <<"\" target=\"_blank\">">> \o txt \o <<"</a>">>

\* C11: an input that is only `[url]`, url a non-empty run of Content, Colon
\* and Digit bytes, yields a line break and then one paragraph holding one
\* anchor whose href and text are both url.
C11_BareLink ==
    LET n == Len(inp)
        url == SubSeq(inp, 2, n - 1)
    IN  ( /\ pc = "done"
          /\ n >= 3
          /\ inp[1] = "["
          /\ inp[n] = "]"
          /\ IsRun(url, UrlClasses) )
        => out = <<"\n", "<p>">> \o Anchor(url, url) \o <<"</p>">>

\* C12: an input that is only `[url](label)`, label a non-empty run of
\* Content bytes, yields a line break and then <p>, the anchor with href url
\* and text label, and </p>.
C12_LabelledLink ==
    \A i \in 3..(Len(inp) - 3) :
        LET n == Len(inp)
            url == SubSeq(inp, 2, i - 1)
            label == SubSeq(inp, i + 2, n - 1)
        IN  ( /\ pc = "done"
              /\ inp[1] = "["
              /\ IsRun(url, UrlClasses)
              /\ inp[i] = "]"
              /\ inp[i + 1] = "("
              /\ IsRun(label, {"Content"})
              /\ inp[n] = ")" )
            => out = <<"\n", "<p>">> \o Anchor(url, label) \o <<"</p>">>

\* the superscript anchor of the footnote marker whose digits are d
FnAnchor(d) ==
    <<"<a id=\"link-">> \o d \o <<"\" target=\"#ref-">> \o d
    \o <<"\">", "<sup>">> \o d \o <<"</sup>", "</a>">>

\* C13: a run of Content bytes followed by `[^`, one or more digits and `]`
\* at the end of the input yields <p>, the text, the superscript anchor of
\* the marker and </p>, with none of `[`, `^`, `]` written.
C13_FootnoteMarker ==
    \A i \in 2..(Len(inp) - 3) :
        LET n == Len(inp)
            text == SubSeq(inp, 1, i - 1)
            d == SubSeq(inp, i + 2, n - 1)
        IN  ( /\ pc = "done"
              /\ IsRun(text, {"Content"})
              /\ inp[i] = "["
              /\ inp[i + 1] = "^"
              /\ IsRun(d, {"Digit"})
              /\ inp[n] = "]" )
            => out = <<"<p>">> \o text \o FnAnchor(d) \o <<"</p>">>

\* the step just taken consumed a byte of class cl
Consumed(cl) ==
    /\ pc = "run"
    /\ Len(inp') = Len(inp) + 1
    /\ classify(inp'[Len(inp')]) = cl

\* C14: a Newline consumed directly after a Newline while a footnote
\* definition is on top of the stack pops it and writes its close fragment
\* (the back-link and </p>) first, as the blank-line rule does for a
\* Paragraph.
C14_BlankLineClosesFootnote ==
    [][(/\ Consumed("Newline")
        /\ prev_c = "Newline"
        /\ Top(tag_stack).k = "FootNoteRef")
       => LET close == write_close(Top(tag_stack))
          IN  /\ tag_stack' = Rest(tag_stack)
              /\ Len(Written) >= Len(close)
              /\ SubSeq(Written, 1, Len(close)) = close
      ]_vars

\* the byte the step just taken consumed went into the URL of the Link on
\* top of the stack instead of the sink
Buffered ==
    /\ Top(tag_stack').k = "Link"
    /\ Top(tag_stack').st = "Link"
    /\ Top(tag_stack') # Top(tag_stack)

\* C15: a Content byte that is not buffered in a link is the last thing its
\* step writes, and when the byte before it is a Content byte too the step
\* writes the byte and nothing else; so a run of Content bytes is written
\* unchanged, in order, with nothing between two of its bytes.
C15_VerbatimContent ==
    [][(Consumed("Content") /\ pc' = "run" /\ ~Buffered)
       => LET b == inp'[Len(inp')]
          IN  /\ Written # <<>>
              /\ Written[Len(Written)] = b
              /\ (Len(inp) > 0 /\ classify(inp[Len(inp)]) = "Content")
                    => Written = <<b>>
      ]_vars

\* C16: the stack never holds more than one block-level construct
\* (Paragraph or Heading).
C16_OneBlock ==
    Cardinality({i \in DOMAIN tag_stack : tag_stack[i].k \in {"P", "H"}}) <= 1

\* the construct a closing delimiter closes
Matching(cl) == IF cl = "Underscore" THEN "I" ELSE "Strong"

\* C17: when a pending `_` or `*` is resolved by a Whitespace or Newline
\* byte and the top of the stack is not the delimiter's construct, the step
\* leaves the stack as it was, writes no close tag and writes the delimiter
\* as literal text.
C17_MismatchedCloseIsLiteral ==
    [][(/\ (Consumed("Whitespace") \/ Consumed("Newline"))
        /\ prev_c \in {"Underscore", "Asterisk"}
        /\ Top(tag_stack).k # Matching(prev_c))
       => /\ tag_stack' = tag_stack
          /\ Range(Written) \cap CloseToks = {}
          /\ Written # <<>>
          /\ Written[1] = as_char(prev_c)
      ]_vars

\* C18: the cursor starts at 0; a transcribe call that returns moves it up
\* by exactly one, from the position of the byte it consumed; finish leaves
\* it alone; no step moves it down.
C18_CursorAdvances ==
    /\ ix = 0
    /\ [][/\ ix' >= ix
          /\ (pc = "run" /\ pc' = "run") =>
                (ix = Len(inp) /\ ix' = ix + 1 /\ Len(inp') = ix')
          /\ pc' = "done" => ix' = ix
         ]_vars

\* finish has returned after MaxLen calls of transcribe.
C18_Witness == pc = "done" /\ ix = MaxLen /\ Len(inp) = MaxLen

\* the class the classification table gives a byte value
TableClass(v) ==
    CASE v \in {32, 9} -> "Whitespace"
      [] v \in {10, 13} -> "Newline"
      [] v = 95 -> "Underscore"
      [] v = 42 -> "Asterisk"
      [] v = 35 -> "Octothorpe"
      [] v = 94 -> "Caret"
      [] v = 58 -> "Colon"
      [] v = 91 -> "SqBracketL"
      [] v = 93 -> "SqBracketR"
      [] v = 40 -> "ParenL"
      [] v = 41 -> "ParenR"
      [] v \in 48..57 -> "Digit"
      [] OTHER -> "Content"

C20_NewlineInFootnoteIsSyntaxError ==
    [][(/\ Consumed("Newline")
        /\ prev_c \in {"Digit", "Colon"}
        /\ IsFn(Top(tag_stack)))
       => pc' = "syntax"
      ]_vars

\* s is a proper prefix of t
ProperPrefix(s, t) == Len(s) < Len(t) /\ s = SubSeq(t, 1, Len(s))

\* C21: a transcribe step in which a sink write fails returns the I/O error
\* with only the writes before the failing one done, and with the cursor and
\* prev_c as they were.
C21_IoFailureAborts ==
    [][pc' = "io_error" =>
          /\ pc = "run"
          /\ ix' = ix
          /\ prev_c' = prev_c
          /\ ProperPrefix(Written, handle(inp'[Len(inp')]).w)
      ]_vars

\* the sink failed on the </i> of `_a_ `, after <p><i>a was written
C21_Witness ==
    /\ pc = "io_error"
    /\ inp = <<"_", "a", "_", " ">>
    /\ out = <<"\n", "<p>", "<i>", "a">>
    /\ prev_c = "Underscore"
    /\ ix = 3

\* C22: a Whitespace or Newline byte consumed while `_` (or `*`) is pending
\* and Italic (or Strong) is on top of the stack pops that construct and
\* writes its close tag and then the byte.
C22_MatchedCloseOnBlank ==
    [][(/\ (Consumed("Whitespace") \/ Consumed("Newline"))
        /\ prev_c \in {"Underscore", "Asterisk"}
        /\ Top(tag_stack).k = Matching(prev_c))
       => /\ tag_stack' = Rest(tag_stack)
          /\ Written = write_close(Top(tag_stack)) \o <<inp'[Len(inp')]>>
      ]_vars

\* C23: a Whitespace byte consumed after Whitespace, Content, Newline, `_`
\* or `*` is itself written, once, as the last thing the step writes.
C23_WhitespaceCopied ==
    [][(/\ Consumed("Whitespace")
        /\ prev_c \in {"Whitespace", "Content", "Newline", "Underscore", "Asterisk"})
       => LET b == inp'[Len(inp')]
          IN  /\ Written # <<>>
              /\ Written[Len(Written)] = b
              /\ Count(Written, b) = 1
      ]_vars

TagToks == OpenToks \cup CloseToks

\* C24: a Newline consumed directly after a Newline while the stack is empty
\* writes no tag and leaves the stack empty.
C24_BlankLineOnEmptyStack ==
    [][(/\ Consumed("Newline")
        /\ prev_c = "Newline"
        /\ tag_stack = <<>>)
       => /\ tag_stack' = <<>>
          /\ Range(Written) \cap TagToks = {}
      ]_vars

Delims == {"_", "*"}

\* The input holds exactly two delimiter bytes, both d and next to each other.
OnePair(d) ==
    /\ \A i \in DOMAIN inp : inp[i] \in Delims => inp[i] = d
    /\ Count(inp, d) = 2
    /\ \E i \in 1..(Len(inp) - 1) : inp[i] = d /\ inp[i + 1] = d

\* C25: once the run is over, an input whose only delimiters are one `__` or
\* one `**` pair shows exactly one literal delimiter character in the output,
\* and the second delimiter of a pair never changes the stack or writes a tag.
C25_DoubledDelimiterCollapses ==
    /\ [](pc = "done" => \A d \in Delims : OnePair(d) => Count(out, d) = 1)
    /\ [][\A cl \in {"Underscore", "Asterisk"} :
            (Consumed(cl) /\ prev_c = cl)
            => (tag_stack' = tag_stack /\ Range(Written) \cap TagToks = {})
         ]_vars

TagCount(k) == Cardinality({i \in DOMAIN tag_stack : tag_stack[i].k = k})

\* C26: in every reachable state the stack holds at most one Italic and at
\* most one Strong.
C26_OneItalicOneStrong ==
    TagCount("I") <= 1 /\ TagCount("Strong") <= 1

InlineOpenToks == {"<i>", "<strong>"}

NoBlock(stk) == \A i \in DOMAIN stk : stk[i].k \notin {"P", "H"}

\* C27: a step that writes `<i>` or `<strong>` while neither a Paragraph nor a
\* Heading is on the stack writes `<p>` before it and leaves a Paragraph
\* below the new inline construct.
C27_ParagraphBeforeInline ==
    [][(/\ pc = "run"
        /\ Len(inp') = Len(inp) + 1
        /\ NoBlock(tag_stack)
        /\ Range(Written) \cap InlineOpenToks # {})
       => /\ \E i, j \in DOMAIN Written :
                i < j /\ Written[i] = "<p>" /\ Written[j] \in InlineOpenToks
          /\ \E i, j \in DOMAIN tag_stack' :
                i < j /\ tag_stack'[i].k \in {"I", "Strong"} /\ tag_stack'[j].k = "P"
      ]_vars

\* C28: a step that consumes `_` neither writes `<strong>` nor adds a Strong
\* to the stack, and a step that consumes `*` neither writes `<i>` nor adds
\* an Italic to the stack.
C28_DelimiterOpensItsOwnKind ==
    [][/\ Consumed("Underscore")
          => /\ "<strong>" \notin Range(Written)
             /\ Count([i \in DOMAIN tag_stack' |-> tag_stack'[i].k], "Strong")
                  <= TagCount("Strong")
       /\ Consumed("Asterisk")
          => /\ "<i>" \notin Range(Written)
             /\ Count([i \in DOMAIN tag_stack' |-> tag_stack'[i].k], "I")
                  <= TagCount("I")
      ]_vars

\* s occurs in t as a run of neighbouring elements
IsInfix(s, t) ==
    \E i \in 0..(Len(t) - Len(s)) : SubSeq(t, i + 1, i + Len(s)) = s

LinkCount(stk) == Cardinality({i \in DOMAIN stk : stk[i].k = "Link"})

\* a `]` has just been consumed and a Link still collecting its URL is on top
BareLinkPending ==
    /\ prev_c = "SqBracketR"
    /\ tag_stack # <<>>
    /\ Head(tag_stack).k = "Link"
    /\ Head(tag_stack).st = "Link"

\* C29: the step after the `]` of a Link in URL mode, on any byte but `(`,
\* writes the whole anchor with the URL as href and as text, and takes the
\* Link off the stack.
C29_BareLinkEmittedOnNextByte ==
    [][(/\ pc = "run"
        /\ Len(inp') = Len(inp) + 1
        /\ BareLinkPending
        /\ classify(inp'[Len(inp')]) # "ParenL")
       => LET url == Head(tag_stack).url
          IN  /\ IsInfix(Anchor(url, url), Written)
              /\ LinkCount(tag_stack') = LinkCount(tag_stack) - 1
      ]_vars

IsParen(b) == b \in {"(", ")"}

ParenTextClasses ==
    {"ParenL", "ParenR", "Whitespace", "Newline", "Content", "Underscore", "Asterisk"}

\* C30: an input of parentheses, blanks, line breaks, content and `_`, `*`
\* never has a Link on the stack, so every `(` and `)` in it is literal:
\* once the run is over, the parentheses of the output are those of the
\* input, each once and in the same order.
C30_LiteralParens ==
    ( /\ pc = "done"
      /\ \A i \in DOMAIN inp : classify(inp[i]) \in ParenTextClasses )
    => SelectSeq(out, IsParen) = SelectSeq(inp, IsParen)

\* C31: a Content byte consumed directly after `[` while a Link is on top
\* writes `[` and the URL the Link had buffered, and puts a new Link seeded
\* with the byte in its place: the stack is as deep as before.
C31_NestedBracketFlushes ==
    [][(/\ Consumed("Content")
        /\ prev_c = "SqBracketL"
        /\ tag_stack # <<>>
        /\ Head(tag_stack).k = "Link")
       => /\ Written = <<"[">> \o Head(tag_stack).url
          /\ tag_stack' = <<new_link(inp'[Len(inp')])>> \o Tail(tag_stack)
          /\ Len(tag_stack') = Len(tag_stack)
      ]_vars

C31_Witness ==
    /\ pc = "run"
    /\ inp = <<"[", "a", "[", "a">>
    /\ out = <<"[", "a">>
    /\ tag_stack = <<new_link("a")>>

RECURSIVE DecVal(_)
\* the number a run of digit bytes reads as
DecVal(d) ==
    IF d = <<>> THEN 0
    ELSE DecVal(SubSeq(d, 1, Len(d) - 1)) * 10 + char_to_digit(d[Len(d)])

\* C32: while the input read so far is `[^` and one or more digits and the
\* Finalizer has not run, a footnote construct is on top of the stack and
\* its index is the number the digits read as.
C32_IndexIsDecimalValue ==
    LET n == Len(inp)
        d == SubSeq(inp, 3, n)
    IN  ( /\ pc # "done"
          /\ n >= 3
          /\ inp[1] = "["
          /\ inp[2] = "^"
          /\ IsRun(d, {"Digit"}) )
        => /\ pc = "run"
           /\ IsFn(Top(tag_stack))
           /\ Top(tag_stack).n = DecVal(d)

FnRefCount(stk) == Cardinality({i \in DOMAIN stk : stk[i].k = "FootNoteRef"})

\* a `]` has just been consumed and a footnote marker is on top of the stack
MarkerClosed ==
    /\ prev_c = "SqBracketR"
    /\ tag_stack # <<>>
    /\ Head(tag_stack).k = "FootNoteLink"

\* C33: a Colon consumed right after the `]` of a footnote marker writes
\* nothing, puts a footnote definition with the marker's index in the
\* marker's place and records Colon as previous class; a Colon consumed in
\* any other state adds no footnote definition to the stack.
C33_ColonMakesDefinition ==
    [][Consumed("Colon") =>
          IF MarkerClosed
          THEN /\ Written = <<>>
               /\ tag_stack' = <<to_fn_ref(Head(tag_stack).n)>> \o Tail(tag_stack)
               /\ prev_c' = "Colon"
          ELSE FnRefCount(tag_stack') <= FnRefCount(tag_stack)
      ]_vars

C33_Witness ==
    /\ pc = "run"
    /\ inp = <<"a", "[", "^", "1", "]", ":">>
    /\ prev_c = "Colon"
    /\ tag_stack # <<>>
    /\ Head(tag_stack) = to_fn_ref(1)

\* C34: a step that consumes a Content byte and writes it while neither a
\* Paragraph nor a Heading is on the stack writes `<p>` before the byte and
\* leaves a Paragraph on the stack.
C34_ContentInsideBlock ==
    [][(/\ Consumed("Content")
        /\ NoBlock(tag_stack)
        /\ Written # <<>>
        /\ Written[Len(Written)] = inp'[Len(inp')])
       => /\ \E i \in 1..(Len(Written) - 1) : Written[i] = "<p>"
          /\ \E i \in DOMAIN tag_stack' : tag_stack'[i].k = "P"
      ]_vars

IsTagTok(x) == x \in TagToks

\* what the run writes from here on if the Finalizer runs now
FinishNow == finish_result.w

\* what the run writes from here on if a space is consumed first and the
\* Finalizer runs after it: the previous class is then Whitespace, for which
\* the Finalizer goes straight to the drain
FinishAfterSpace ==
    LET r == transcribe_whitespace(" ")
    IN  r.w \o drain(r.stk).w

\* C35: with a `_` or `*` as previous class, the Finalizer writes the tags, in
\* order, that a space followed by the Finalizer writes.
C35_DanglingDelimiterAsWhitespace ==
    (pc = "run" /\ prev_c \in {"Underscore", "Asterisk"})
    => SelectSeq(FinishNow, IsTagTok) = SelectSeq(FinishAfterSpace, IsTagTok)

\* what closing or flushing one construct writes at the end of the input
DrainFragment(t) ==
    CASE t.k = "H" -> <<HClose[t.lvl]>>
      [] t.k = "I" -> <<"</i>">>
      [] t.k = "Strong" -> <<"</strong>">>
      [] t.k = "P" -> <<"</p>">>
      [] t.k = "FootNoteRef" ->
            <<"<a href=\"#link-">> \o Dec(t.n) \o <<"\">", "U+1F519", "</a>", "</p>">>
      [] t.k = "Link" -> <<"[">> \o t.url
      [] t.k = "FootNoteLink" -> <<"[", "^">> \o Dec(t.n) \o <<"]">>

RECURSIVE InnermostFirst(_)
\* the fragments of a stack, top first
InnermostFirst(s) ==
    IF s = <<>> THEN <<>> ELSE DrainFragment(Head(s)) \o InnermostFirst(Tail(s))

\* C36: after the Finalizer has dealt with the previous class, it writes the
\* fragment of every construct left on the stack, top first and bottom last,
\* and the stack ends empty.
C36_DrainInnermostFirst ==
    [][(pc = "run" /\ pc' = "done")
       => /\ Written = finish_pending.w \o InnermostFirst(finish_pending.stk)
          /\ tag_stack' = <<>>
      ]_vars

C36_Witness ==
    /\ pc = "done"
    /\ inp = <<"_", "[", "a">>
    /\ out = <<"\n", "<p>", "<i>", "<i>", "[", "a", "</i>", "</i>", "</p>">>

Punctuation == {"#", "^", ":", "]"}

\* C37: a step that consumes `#`, `^`, `:` or `]` and writes that byte
\* records Content as the previous class.
C37_LiteralPunctuationIsContent ==
    [][\A b \in Punctuation :
          (/\ Consumed(classify(b))
           /\ inp'[Len(inp')] = b
           /\ pc' = "run"
           /\ b \in Range(Written))
          => prev_c' = "Content"
      ]_vars

BlockInlineKinds == {"I", "Strong", "P"}

IsPlainOpenTok(x) == x \in {"<i>", "<strong>", "<p>"}

\* the constructs a step put on top of the stack it found, first pushed first
RECURSIVE PushedOpens(_)
PushedOpens(s) ==
    IF s = <<>> THEN <<>>
    ELSE PushedOpens(Tail(s))
         \o (IF Head(s).k \in BlockInlineKinds THEN write_open(Head(s)) ELSE <<>>)

\* C38: in a step that only adds to the stack, the `<i>`, `<strong>` and
\* `<p>` tags written are, in order, the open tags of the Italic, Strong and
\* Paragraph constructs pushed.
C38_OpenTagMatchesPush ==
    [][(/\ pc = "run"
        /\ pc' = "run"
        /\ Len(tag_stack') >= Len(tag_stack)
        /\ SubSeq(tag_stack', Len(tag_stack') - Len(tag_stack) + 1, Len(tag_stack'))
             = tag_stack)
       => SelectSeq(Written, IsPlainOpenTok)
            = PushedOpens(SubSeq(tag_stack', 1, Len(tag_stack') - Len(tag_stack)))
      ]_vars

FnIndices(stk) == {stk[i].n : i \in {j \in DOMAIN stk : IsFn(stk[j])}}

\* the footnote on top of the stack has had its closing `]`: a marker right
\* after its `]`, or a definition
FootnoteClosed ==
    \/ MarkerClosed
    \/ tag_stack # <<>> /\ Head(tag_stack).k = "FootNoteRef"

\* C39: a Digit consumed while the footnote on top has had its closing `]` is
\* written as it is and no footnote on the stack gets a new index.
C39_IndexFixedAfterClose ==
    [][(/\ Consumed("Digit")
        /\ pc' = "run"
        /\ FootnoteClosed)
       => /\ inp'[Len(inp')] \in Range(Written)
          /\ FnIndices(tag_stack') \subseteq FnIndices(tag_stack)
      ]_vars

====
